---- MODULE Spec2Model ----
(***************************************************************************)
(* Consent-gated face recognition of the memento backend: the membership   *)
(* and consent API, the event indexer lambda (the reconciler) and the      *)
(* recognition API, over the relational store and the face collections of  *)
(* the recognition backend.                                                *)
(***************************************************************************)
EXTENDS Integers, Sequences, FiniteSets, Bags, TLC

\* ------------------------------------------------------------------ bounds
Events == {1, 2, 3}
Users == {1, 2}
Invocations == {"a", "b"}

\* The worker processes that serve the API: a request in flight holds one.
Workers == {1, 2}

\* What the environment does per behaviour: API requests, invocations of the
\* event indexer, and calls (store, backend) that raise.
MaxSteps == 3

\* ------------------------------------------------------------ program data
None == "None"

PENDING == "pending"
IN_PROGRESS == "in_progress"
COMPLETED == "completed"
FAILED == "failed"
EventProcessingStatus == {PENDING, IN_PROGRESS, COMPLETED, FAILED}

\* consented_at and revoked_at of a consent row: None, or the time of a write.
\* Seen from the last request on the row, a time is "now" when that request
\* wrote it and "earlier" when a request before it did.
Age(t) == IF t = None THEN None ELSE "earlier"

\* The body of PATCH /consents/event/{event_id}: every field optional.
\* An optional field is <<>> when absent (None) and <<v>> when given.
Absent == <<>>
Given(v) == <<v>>
OptionalBool == {Absent, Given(TRUE), Given(FALSE)}
ConsentUpdate == [allow_profile_display : OptionalBool, allow_recognition : OptionalBool]

\* What a stored image shows: one person's face, no face at all, or bytes the
\* backend cannot read.
NoFace == [kind |-> "noface", who |-> 0]
Corrupt == [kind |-> "corrupt", who |-> 0]
FaceOf(u) == [kind |-> "face", who |-> u]

\* The pictures of the bucket: upload_profile_picture stores the picture of a
\* user under profiles/{user_id}-{source}.jpg, one key per user and source, and
\* a later upload replaces the object under the key.
ObjectKeys == <<"profiles/1-linkedin.jpg", "profiles/2-linkedin.jpg">>
object_key(u) == ObjectKeys[u]

\* What the picture that a user uploads can show: the upload normalises it to
\* JPEG whatever it shows, a picture that the backend rejects included.
Pictures(u) == {FaceOf(u), NoFace, Corrupt}

\* The read of a key that names no object of the bucket.
Missing == [kind |-> "missing", who |-> 0]

\* profiles.photo_path: None, or a string that a request gave: the empty
\* string or the key of a picture.
PhotoPaths == {""} \cup {object_key(u) : u \in Users}

\* The store the behaviours start from: events 1 and 2 are created, both users
\* have joined event 1, user 1 has uploaded a picture of their face and granted all
\* consents for event 1, and the consent row of user 2 holds the defaults.
SeedEvents == {1, 2}
SeedMembers == {<<1, 1>>, <<1, 2>>}
SeedConsents == [p \in SeedMembers |->
                    [allow_profile_display |-> (p[2] = 1),
                     allow_recognition |-> (p[2] = 1),
                     consented_at |-> IF p[2] = 1 THEN "earlier" ELSE None,
                     revoked_at |-> None]]
SeedPhotos == [u \in {1, 2} |-> IF u = 1 THEN object_key(1) ELSE None]
SeedBucket == [k \in {object_key(1)} |-> FaceOf(1)]

\* The bytes b"", which are no image.
Empty == [kind |-> "empty", who |-> 0]

\* The image_base64 of a request: the base64 of image bytes, bare or after the
\* prefix of a data URL ("data:image/jpeg;base64,"); a string of base64
\* characters with incorrect padding; a string with no character of the
\* base64 alphabet.
\* Each is <<what the string is, whether it has the prefix, the image bytes
\* that were encoded>>.
Base64(image, data_url) == <<"base64", data_url, image>>
BadPadding == <<"bad_padding", FALSE, Empty>>
NotBase64 == <<"not_base64", FALSE, Empty>>

\* list_faces(MaxResults=100) in delete_faces_by_user.
MaxResults == 100

\* The service defaults of the search: settings.rekognition_max_faces and
\* settings.rekognition_face_match_threshold.
rekognition_max_faces == 10
rekognition_face_match_threshold == 80

\* The payloads of the requests, and the max_faces (1..20) and threshold
\* (0..100) a request to POST /recognition/detect can carry.
Frames == {Base64(FaceOf(u), FALSE) : u \in Users}
              \cup {Base64(NoFace, FALSE), Base64(Corrupt, FALSE), Base64(FaceOf(1), TRUE),
                    BadPadding, NotBase64}
SearchChoices == {<<Absent, Absent>>, <<Given(1), Given(0)>>, <<Given(20), Given(90)>>}

\* The faces of other attendees that fill one page of list_faces.
Crowd == {[face_id |-> n, external_id |-> 0, image |-> FaceOf(0)] : n \in 1..MaxResults}

\* Minutes from now to the start of each event, and the windows a caller asks.
starts_at == [e \in Events |-> 20 * e - 10]
DefaultWindowMinutes == 20
WindowChoices == {DefaultWindowMinutes, 40, 60}

VARIABLES
    memberships,      \* event_memberships: the (event, user) pairs that joined
    consents,         \* event_consents: (event, user) -> row, for the rows that exist
    photo_path,       \* profiles: user -> photo_path (None, "" or the key of a
                      \* picture), for the users that have a profile row
    bucket,           \* the pictures of the bucket: key -> what the object shows
    pending,          \* the bag of store calls that request handlers in flight
                      \* have yet to make, one per handler
    indexing_status,  \* events.indexing_status, for the events that exist
    collections,      \* collection id -> set of indexed faces, for the collections that exist
    face_ids,         \* collection id -> the highest FaceId the backend has assigned in
                      \* the collection, for the collections that exist
    rc,               \* per invocation of the event indexer: its locals
    response,         \* the last response of the recognition API
    requests,         \* the bag of handlers of the recognition API in flight,
                      \* each before a call of the backend
    ever_allowed,     \* history: (event, user) that ever had allow_recognition = true
    revoked_all,      \* history: (event, user) whose last consent change is a revoke-all
    settled,          \* history: per event, the status and the faces its last attempt
                      \* ended with, if no call of that attempt was made to raise and
                      \* no consent or profile write came after it began (else None),
                      \* and whether such a write came since the last attempt began
    steps             \* history: requests, invocations and raising calls so far

vars == <<memberships, consents, photo_path, bucket, pending, indexing_status, collections,
          face_ids, rc, response, requests, ever_allowed, revoked_all, settled, steps>>

\* The rows and the pictures the API writes, and the calls of its handlers in
\* flight.
db_vars == <<memberships, consents, photo_path, bucket, pending>>
api_vars == <<response, requests>>
hist_vars == <<ever_allowed, revoked_all, settled>>

\* A table keyed by its primary key: a function on the keys of the rows it holds.
Upsert(table, key, row) ==
    [x \in DOMAIN table \cup {key} |-> IF x = key THEN row ELSE table[x]]
Delete(table, key) == [x \in DOMAIN table \ {key} |-> table[x]]

\* ------------------------------------------------------------- collections
\* collection_id = f"memento_event_{event_id}" (the indexer), and the one
\* collection of the recognition API, settings.rekognition_collection_id.
\* A derivation that gives every event the same collection.
SharedCollection(e) == [prefix |-> "memento_event_", suffix |-> 0]
EventCollection(e) == [prefix |-> "memento_event_", suffix |-> e]
SettingsCollection == [prefix |-> "settings.rekognition_collection_id", suffix |-> 0]

\* An indexed face: the id the backend assigned, the external image id given
\* with the index call, and the image it was taken from.
CollectionExists(cid) == cid \in DOMAIN collections
FacesOf(cid) == IF CollectionExists(cid) THEN collections[cid] ELSE {}
ExternalIds(cid) == {f.external_id : f \in FacesOf(cid)}
\* The highest FaceId of the faces, 0 without a face.
MaxFaceId(faces) ==
    IF faces = {} THEN 0
    ELSE CHOOSE n \in {f.face_id : f \in faces} : \A f \in faces : f.face_id <= n
\* The FaceId of the next face the backend stores in the collection: the
\* backend assigns no FaceId twice, also not the FaceId of a deleted face.
NextFaceId(cid) == IF cid \in DOMAIN face_ids THEN face_ids[cid] + 1 ELSE 1
\* The FaceIds assigned after a call of the backend that leaves collections':
\* a face stored by the call has the highest FaceId of its collection, and a
\* deletion takes no FaceId back.
AssignFaceIds ==
    face_ids' = [c \in DOMAIN collections' |->
                    LET assigned == IF c \in DOMAIN face_ids THEN face_ids[c] ELSE 0
                        stored == MaxFaceId(collections'[c])
                    IN  IF stored > assigned THEN stored ELSE assigned]

\* ------------------------------------------------------------------- init
\* The locals of _run, and the history of the invocation: the last status it
\* wrote per event (wrote) and the steps that raised (raised_at).
IdleRc == [pc |-> "idle", events |-> <<>>, k |-> 1, user_ids |-> <<>>, j |-> 1,
           photo_path |-> None, processed_count |-> 0, failed_count |-> 0, result |-> <<>>,
           wrote |-> [e \in Events |-> None], raised_at |-> {}]

Unsettled(written) == [status |-> None, faces |-> {}, written |-> written]

NoResponse == [op |-> None, image |-> <<>>, status |-> 0, matches |-> {},
               search |-> <<>>, deleted_count |-> 0, stats |-> <<>>]

\* The face that a pass of the indexer on event 1 stores for user 1.
SeedIndexed == {[face_id |-> 1, external_id |-> 1, image |-> FaceOf(1)]}

\* The behaviours start from the seed store, before any pass of the indexer
\* or after an invocation with the default window went through event 1: the
\* event is completed and its collection holds the face of user 1.
InitFrom(indexed) ==
    /\ memberships = SeedMembers
    /\ consents = SeedConsents
    /\ photo_path = SeedPhotos
    /\ bucket = SeedBucket
    /\ pending = EmptyBag
    /\ indexing_status = [e \in SeedEvents |->
                              IF indexed /\ e = 1 THEN COMPLETED ELSE PENDING]
    /\ collections = IF indexed THEN [c \in {EventCollection(1)} |-> SeedIndexed]
                     ELSE <<>>
    /\ face_ids = [c \in DOMAIN collections |-> MaxFaceId(collections[c])]
    /\ rc = [i \in Invocations |-> IdleRc]
    /\ response = NoResponse
    /\ requests = EmptyBag
    /\ ever_allowed = {p \in SeedMembers : SeedConsents[p].allow_recognition}
    /\ revoked_all = {}
    /\ settled = [e \in Events |->
                      IF indexed /\ e = 1
                      THEN [status |-> COMPLETED, faces |-> SeedIndexed, written |-> FALSE]
                      ELSE Unsettled(TRUE)]
    /\ steps = 0

Init == \E indexed \in BOOLEAN : InitFrom(indexed)

\* ------------------------------------------------- membership and consent
\* A consent or profile write that the attempts on the events E come before.
Unsettle(E) ==
    settled' = [e \in Events |-> IF e \in E THEN Unsettled(TRUE) ELSE settled[e]]

\* The request handlers in flight.
InFlight == BagCardinality(pending) + BagCardinality(requests)

\* A request that a worker takes up.
Request ==
    /\ steps < MaxSteps
    /\ InFlight < Cardinality(Workers)
    /\ steps' = steps + 1

\* The handler goes from one store call to the next, or ends with the call.
Then(call, next) == pending' = (pending (-) SetToBag({call})) (+) SetToBag({next})
Ends(call) == pending' = pending (-) SetToBag({call})

\* A call that returns (ok) or raises.
Call(ok) ==
    /\ ~ok => steps < MaxSteps
    /\ steps' = IF ok THEN steps ELSE steps + 1

\* update_data of ConsentDAL.update: the fields of the row it writes (a field
\* that is not written is Absent).
NoUpdate == [allow_profile_display |-> Absent, allow_recognition |-> Absent,
             consented_at |-> Absent, revoked_at |-> Absent]

\* The store calls a handler in flight has yet to make: the membership insert
\* and the consent insert of join_event, the membership delete of
\* leave_event, the write of ConsentDAL.update, the profile insert of
\* create_my_profile and onboard_from_linkedin_url, and of the latter the
\* profile read, with the photo_path that the upload returned (None without
\* one), and the profile update, with the photo_path it is called with.
MembershipInsert(e, u) ==
    [call |-> "membership_dal.join_event", key |-> <<e, u>>, update_data |-> NoUpdate,
     photo_path |-> None]
ConsentInsert(e, u) ==
    [call |-> "consent_dal.create", key |-> <<e, u>>, update_data |-> NoUpdate,
     photo_path |-> None]
MembershipDelete(e, u) ==
    [call |-> "membership_dal.leave_event", key |-> <<e, u>>, update_data |-> NoUpdate,
     photo_path |-> None]
ConsentWrite(e, u, update_data) ==
    [call |-> "consent_dal.update", key |-> <<e, u>>, update_data |-> update_data,
     photo_path |-> None]
ProfileInsert(u, p) ==
    [call |-> "profile_dal.create", key |-> <<0, u>>, update_data |-> NoUpdate,
     photo_path |-> p]
ProfileGet(u, p) ==
    [call |-> "profile_dal.get_by_user_id", key |-> <<0, u>>, update_data |-> NoUpdate,
     photo_path |-> p]
ProfileSave(u, p) ==
    [call |-> "profile_dal.update", key |-> <<0, u>>, update_data |-> NoUpdate,
     photo_path |-> p]

\* ConsentDAL.create: consented_at is now when a flag is given true, else None;
\* revoked_at is not written.
ConsentCreated(allow_profile_display, allow_recognition) ==
    [allow_profile_display |-> allow_profile_display,
     allow_recognition |-> allow_recognition,
     consented_at |-> IF allow_profile_display \/ allow_recognition THEN "now" ELSE None,
     revoked_at |-> None]

\* POST /memberships/join, lines 56-62: 409 when membership_dal.get finds the
\* membership. The membership insert is the next call of the handler.
join_event(e, u) ==
    /\ Request
    /\ <<e, u>> \notin memberships
    /\ pending' = pending (+) SetToBag({MembershipInsert(e, u)})
    /\ UNCHANGED <<memberships, consents, photo_path, bucket, indexing_status, collections,
                   face_ids, rc, api_vars, hist_vars>>

\* POST /memberships/join, line 65: membership_dal.join_event inserts the
\* membership row. The call can raise, and the insert of a row that exists by
\* now raises: the handler ends. Else the consent insert is its next call.
join_event_insert_membership(e, u, ok) ==
    /\ BagIn(MembershipInsert(e, u), pending)
    /\ Call(ok)
    /\ IF ok /\ <<e, u>> \notin memberships
       THEN /\ memberships' = memberships \cup {<<e, u>>}
            /\ Then(MembershipInsert(e, u), ConsentInsert(e, u))
       ELSE /\ Ends(MembershipInsert(e, u))
            /\ UNCHANGED memberships
    /\ UNCHANGED <<consents, photo_path, bucket, indexing_status, collections, face_ids, rc,
                   api_vars, hist_vars>>

\* POST /memberships/join, lines 67-77: consent_dal.create inserts the row with
\* both flags false. The call can raise, and the insert of a row that exists
\* raises: the membership stays as it is.
join_event_create_consent(e, u, ok) ==
    /\ BagIn(ConsentInsert(e, u), pending)
    /\ Call(ok)
    /\ Ends(ConsentInsert(e, u))
    /\ IF ok /\ <<e, u>> \notin DOMAIN consents
       THEN /\ consents' = Upsert(consents, <<e, u>>, ConsentCreated(FALSE, FALSE))
            /\ revoked_all' = revoked_all \ {<<e, u>>}
            /\ Unsettle({e})
       ELSE UNCHANGED <<consents, revoked_all, settled>>
    /\ UNCHANGED <<memberships, photo_path, bucket, indexing_status, collections, face_ids, rc,
                   api_vars, ever_allowed>>

\* DELETE /memberships/event/{event_id}/leave, lines 150-151:
\* consent_dal.delete deletes the consent row, if there is one. The membership
\* delete is the next call of the handler.
leave_event(e, u) ==
    /\ Request
    /\ pending' = pending (+) SetToBag({MembershipDelete(e, u)})
    /\ IF <<e, u>> \in DOMAIN consents
       THEN /\ consents' = Delete(consents, <<e, u>>)
            /\ revoked_all' = revoked_all \ {<<e, u>>}
            /\ Unsettle({e})
       ELSE UNCHANGED <<consents, revoked_all, settled>>
    /\ UNCHANGED <<memberships, photo_path, bucket, indexing_status, collections, face_ids, rc,
                   api_vars, ever_allowed>>

\* DELETE /memberships/event/{event_id}/leave, lines 153-160:
\* membership_dal.leave_event deletes the membership row; 404 when there was
\* none. The call can raise: the consent row stays deleted.
leave_event_delete_membership(e, u, ok) ==
    /\ BagIn(MembershipDelete(e, u), pending)
    /\ Call(ok)
    /\ Ends(MembershipDelete(e, u))
    /\ memberships' = IF ok THEN memberships \ {<<e, u>>} ELSE memberships
    /\ UNCHANGED <<consents, photo_path, bucket, indexing_status, collections, face_ids, rc,
                   api_vars, hist_vars>>

\* ConsentDAL.update, lines 74-96: update_data, from the row read (current)
\* and the request. consented_at is written, and revoked_at cleared, when a
\* flag is granted; revoked_at is written when allow_profile_display is
\* revoked, and the grant of allow_recognition clears it again.
ConsentUpdateData(current, data) ==
    LET display_granted == /\ data.allow_profile_display = Given(TRUE)
                           /\ ~current.allow_profile_display
        display_revoked == /\ data.allow_profile_display = Given(FALSE)
                           /\ current.allow_profile_display
        recognition_granted == /\ data.allow_recognition = Given(TRUE)
                               /\ ~current.allow_recognition
    IN  [allow_profile_display |-> data.allow_profile_display,
         allow_recognition |-> data.allow_recognition,
         consented_at |->
            IF display_granted \/ recognition_granted THEN Given("now") ELSE Absent,
         revoked_at |->
            IF display_granted \/ recognition_granted THEN Given(None)
            ELSE IF display_revoked THEN Given("now")
            ELSE Absent]

\* The row after the store wrote update_data to it: a field that is not
\* written keeps the stored value.
ConsentWritten(row, update_data) ==
    [allow_profile_display |->
        IF update_data.allow_profile_display # Absent
        THEN update_data.allow_profile_display[1] ELSE row.allow_profile_display,
     allow_recognition |->
        IF update_data.allow_recognition # Absent
        THEN update_data.allow_recognition[1] ELSE row.allow_recognition,
     consented_at |->
        IF update_data.consented_at # Absent
        THEN update_data.consented_at[1] ELSE Age(row.consented_at),
     revoked_at |->
        IF update_data.revoked_at # Absent
        THEN update_data.revoked_at[1] ELSE Age(row.revoked_at)]

\* ConsentDAL.revoke_all: both flags false and revoked_at = now, whatever the
\* row held.
ConsentRevoked(current) ==
    [allow_profile_display |-> FALSE, allow_recognition |-> FALSE,
     consented_at |-> Age(current.consented_at), revoked_at |-> "now"]

\* The history of a consent write to the row of (e, u).
ConsentHistory(e, u, row, by_revoke_all) ==
    /\ ever_allowed' = IF row.allow_recognition THEN ever_allowed \cup {<<e, u>>}
                       ELSE ever_allowed
    /\ revoked_all' = IF by_revoke_all THEN revoked_all \cup {<<e, u>>}
                      ELSE IF row.allow_recognition THEN revoked_all \ {<<e, u>>}
                      ELSE revoked_all
    /\ Unsettle({e})

\* PATCH /consents/event/{event_id}, ConsentDAL.update lines 71-99: the read of
\* the row (404 without one) and update_data. A request that gives no field
\* writes nothing; else the write is the next call of the handler.
update_my_consent(e, u, data) ==
    /\ Request
    /\ <<e, u>> \in DOMAIN consents
    /\ LET update_data == ConsentUpdateData(consents[<<e, u>>], data)
       IN  pending' = IF update_data = NoUpdate THEN pending
                      ELSE pending (+) SetToBag({ConsentWrite(e, u, update_data)})
    /\ UNCHANGED <<memberships, consents, photo_path, bucket, indexing_status, collections,
                   face_ids, rc, api_vars, hist_vars>>

\* ConsentDAL.update, lines 101-111: the store writes update_data to the row
\* as it is by now; without a row nothing is written (404). The call can raise.
update_my_consent_write(e, u, update_data, ok) ==
    /\ update_data # NoUpdate
    /\ BagIn(ConsentWrite(e, u, update_data), pending)
    /\ Call(ok)
    /\ Ends(ConsentWrite(e, u, update_data))
    /\ IF ok /\ <<e, u>> \in DOMAIN consents
       THEN /\ consents' = Upsert(consents, <<e, u>>,
                                  ConsentWritten(consents[<<e, u>>], update_data))
            /\ ConsentHistory(e, u, consents'[<<e, u>>], FALSE)
       ELSE UNCHANGED <<consents, hist_vars>>
    /\ UNCHANGED <<memberships, photo_path, bucket, indexing_status, collections, face_ids, rc,
                   api_vars>>

\* POST /consents/event/{event_id}/grant-all: ConsentDAL.update with both
\* flags true.
grant_all_consents(e, u) ==
    update_my_consent(e, u, [allow_profile_display |-> Given(TRUE),
                             allow_recognition |-> Given(TRUE)])

\* A revoke-all that also deletes the faces of the user from every collection.
revoke_all_consents_evicting(e, u) ==
    /\ Request
    /\ <<e, u>> \in DOMAIN consents
    /\ consents' = Upsert(consents, <<e, u>>, ConsentRevoked(consents[<<e, u>>]))
    /\ collections' = [c \in DOMAIN collections |->
                          {f \in collections[c] : f.external_id # u}]
    /\ ConsentHistory(e, u, consents'[<<e, u>>], TRUE)
    /\ AssignFaceIds
    /\ UNCHANGED <<memberships, photo_path, bucket, pending, indexing_status, rc, api_vars>>

\* POST /consents/event/{event_id}/revoke-all: ConsentDAL.revoke_all writes the
\* consent row, in one call, and nothing else; 404 without a row.
revoke_all_consents(e, u) ==
    /\ Request
    /\ <<e, u>> \in DOMAIN consents
    /\ consents' = Upsert(consents, <<e, u>>, ConsentRevoked(consents[<<e, u>>]))
    /\ ConsentHistory(e, u, consents'[<<e, u>>], TRUE)
    /\ UNCHANGED <<memberships, photo_path, bucket, pending, indexing_status, collections,
                   face_ids, rc, api_vars>>

\* ------------------------------------------------------------- profiles
\* The photo_path of the profile of user u: None without a profile row.
PhotoPathOf(u) == IF u \in DOMAIN photo_path THEN photo_path[u] ELSE None

\* The object that the backend reads under a key of the bucket.
GetObject(key) == IF key \in DOMAIN bucket THEN bucket[key] ELSE Missing

\* POST /profiles/me, lines 78-84: 409 when get_by_user_id finds a profile of
\* the user. The profile insert, with the photo_path given, is the next call
\* of the handler.
create_my_profile(u, p) ==
    /\ Request
    /\ u \notin DOMAIN photo_path
    /\ pending' = pending (+) SetToBag({ProfileInsert(u, p)})
    /\ UNCHANGED <<memberships, consents, photo_path, bucket, indexing_status, collections,
                   face_ids, rc, api_vars, hist_vars>>

\* ProfileDAL.create, called by create_my_profile (line 86) and by
\* onboard_from_linkedin_url (lines 204-221): the row is inserted, with the
\* photo_path given (None: the field is left out). The call can raise, and
\* the insert of a row that exists by now raises.
profile_dal_create(u, p, ok) ==
    /\ BagIn(ProfileInsert(u, p), pending)
    /\ Call(ok)
    /\ Ends(ProfileInsert(u, p))
    /\ IF ok /\ u \notin DOMAIN photo_path
       THEN /\ photo_path' = Upsert(photo_path, u, p)
            /\ Unsettle(Events)
       ELSE UNCHANGED <<photo_path, settled>>
    /\ UNCHANGED <<memberships, consents, bucket, indexing_status, collections, face_ids, rc,
                   api_vars, ever_allowed, revoked_all>>

\* PATCH /profiles/me with a photo_path: ProfileDAL.update writes the fields
\* that are not None, the empty string included; 404 without a profile.
update_profile_photo(u, p) ==
    /\ Request
    /\ u \in DOMAIN photo_path
    /\ p # None
    /\ photo_path' = [photo_path EXCEPT ![u] = p]
    /\ Unsettle(Events)
    /\ UNCHANGED <<memberships, consents, bucket, pending, indexing_status, collections,
                   face_ids, rc, api_vars, ever_allowed, revoked_all>>

\* DELETE /profiles/me: ProfileDAL.delete deletes the profile row; 404 without one.
delete_my_profile(u) ==
    /\ Request
    /\ u \in DOMAIN photo_path
    /\ photo_path' = Delete(photo_path, u)
    /\ Unsettle(Events)
    /\ UNCHANGED <<memberships, consents, bucket, pending, indexing_status, collections,
                   face_ids, rc, api_vars, ever_allowed, revoked_all>>

\* POST /profiles/onboard-from-linkedin-url, lines 159-177: with a picture
\* fetched (image_saved), upload_profile_picture puts it under the key of the
\* user, in place of the object that was there, and returns the key; without
\* one photo_path is None. The read of the profile is the next call of the
\* handler.
onboard_from_linkedin_url(u, image, image_saved) ==
    /\ Request
    /\ image \in Pictures(u)
    /\ IF image_saved
       THEN /\ bucket' = Upsert(bucket, object_key(u), image)
            /\ Unsettle(Events)
       ELSE UNCHANGED <<bucket, settled>>
    /\ pending' = pending (+) SetToBag({ProfileGet(u, IF image_saved THEN object_key(u)
                                                       ELSE None)})
    /\ UNCHANGED <<memberships, consents, photo_path, indexing_status, collections, face_ids,
                   rc, api_vars, ever_allowed, revoked_all>>

\* photo_path or existing.photo_path: None and "" give way to the path of the
\* profile read.
OrExisting(p, existing) == IF p \in {None, ""} THEN existing ELSE p

\* POST /profiles/onboard-from-linkedin-url, lines 179-221: existing is read;
\* the next call of the handler is the update of the profile, with photo_path
\* or existing.photo_path, when there is one, and the insert with photo_path
\* when there is none. The call can raise: the picture stays.
onboard_get_profile(u, p, ok) ==
    /\ BagIn(ProfileGet(u, p), pending)
    /\ Call(ok)
    /\ IF ~ok THEN Ends(ProfileGet(u, p))
       ELSE IF u \in DOMAIN photo_path
       THEN Then(ProfileGet(u, p), ProfileSave(u, OrExisting(p, photo_path[u])))
       ELSE Then(ProfileGet(u, p), ProfileInsert(u, p))
    /\ UNCHANGED <<memberships, consents, photo_path, bucket, indexing_status, collections,
                   face_ids, rc, api_vars, hist_vars>>

\* POST /profiles/onboard-from-linkedin-url, lines 181-202: ProfileDAL.update
\* writes the fields that are not None to the row of the user; without a row
\* by now nothing is written (500). The call can raise: the picture stays.
onboard_save_profile(u, p, ok) ==
    /\ BagIn(ProfileSave(u, p), pending)
    /\ Call(ok)
    /\ Ends(ProfileSave(u, p))
    /\ IF ok /\ u \in DOMAIN photo_path
       THEN /\ photo_path' = IF p = None THEN photo_path ELSE Upsert(photo_path, u, p)
            /\ Unsettle(Events)
       ELSE UNCHANGED <<photo_path, settled>>
    /\ UNCHANGED <<memberships, consents, bucket, indexing_status, collections, face_ids, rc,
                   api_vars, ever_allowed, revoked_all>>

\* delete_profile_picture of services/s3.py, which no route calls:
\* delete_object removes the object under the key.
delete_profile_picture(s3_key) ==
    /\ Request
    /\ s3_key \in DOMAIN bucket
    /\ bucket' = Delete(bucket, s3_key)
    /\ Unsettle(Events)
    /\ UNCHANGED <<memberships, consents, photo_path, pending, indexing_status, collections,
                   face_ids, rc, api_vars, ever_allowed, revoked_all>>

\* ------------------------------------------------------------------ events
\* POST /events: EventDAL.create inserts the event; the store gives a new row
\* the default indexing_status, pending.
create_event(e) ==
    /\ Request
    /\ e \notin DOMAIN indexing_status
    /\ indexing_status' = Upsert(indexing_status, e, PENDING)
    /\ UNCHANGED <<db_vars, collections, face_ids, rc, api_vars, hist_vars>>

\* PATCH /events/{event_id} with an indexing_status: EventDAL.update writes the
\* fields given, whatever the status the event has; 404 without the event.
update_event(e, status) ==
    /\ Request
    /\ e \in DOMAIN indexing_status
    /\ status \in EventProcessingStatus
    /\ indexing_status' = [indexing_status EXCEPT ![e] = status]
    /\ UNCHANGED <<db_vars, collections, face_ids, rc, api_vars, hist_vars>>

\* ------------------------------------------------- the recognition backend
\* IndexFaces on an image that shows a face: the collections the call can leave.
\* The backend stores one face record per call; for a call that repeats the
\* image and the external image id of a stored face it may store nothing new.
IndexFacesOutcomes(cid, image, external_id) ==
    LET fresh == [face_id |-> NextFaceId(cid), external_id |-> external_id,
                  image |-> image]
        stored == \E f \in FacesOf(cid) :
                      f.external_id = external_id /\ f.image = image
    IN  {Upsert(collections, cid, FacesOf(cid) \cup {fresh})}
        \cup (IF stored THEN {collections} ELSE {})

\* CreateCollection: a new empty collection; ResourceAlreadyExistsException
\* when it exists, which leaves it as it is.
CreateCollection(cid) ==
    IF CollectionExists(cid) THEN collections ELSE Upsert(collections, cid, {})

\* ------------------------------------------------------ the event indexer
\* EventDAL.get_events_pending_indexing(window_minutes): the events that start
\* within the window and are not yet indexed (pending, or failed and retried),
\* by event id.
RECURSIVE SortedSeq(_)
SortedSeq(S) ==
    IF S = {} THEN <<>>
    ELSE LET m == CHOOSE x \in S : \A y \in S : x <= y
         IN  <<m>> \o SortedSeq(S \ {m})

get_events_pending_indexing(window_minutes) ==
    SortedSeq({e \in DOMAIN indexing_status :
                              /\ indexing_status[e] \in {PENDING, FAILED}
                              /\ starts_at[e] <= window_minutes})

\* ConsentDAL.get_event_recognition_users(event_id): the users of the event
\* whose consent row has allow_recognition = true, in the order the store
\* returns them.
RecognitionUsers(e) ==
    {u \in Users : <<e, u>> \in DOMAIN consents /\ consents[<<e, u>>].allow_recognition}
Orders(S) ==
    {q \in [1..Cardinality(S) -> S] : \A a, b \in 1..Cardinality(S) : q[a] = q[b] => a = b}
get_event_recognition_users(e) == Orders(RecognitionUsers(e))

CurrentEvent(i) == rc[i].events[rc[i].k]
CurrentUser(i) == rc[i].user_ids[rc[i].j]

\* The locals after the body of the for loop over events ends for one event.
NextEvent(r) ==
    [r EXCEPT !.k = @ + 1,
              !.pc = IF r.k + 1 > Len(r.events) THEN "return" ELSE "in_progress"]

\* The locals after the body of the for loop over user_ids ends for one user
\* (the profile is read anew for the next one).
NextUser(r) ==
    [r EXCEPT !.j = @ + 1, !.photo_path = None,
              !.pc = IF r.j + 1 > Len(r.user_ids) THEN "completed" ELSE "profile"]

\* The steps of an attempt that can raise: the calls, and "photo", the index
\* call given a photo the backend cannot read.
Steps == {"in_progress", "ensure", "query", "profile", "index", "photo",
          "completed", "failed"}

\* An except block that goes on to the write of failed without counting.
ExceptUncounted(r, e, step) ==
    [r EXCEPT !.pc = "failed", !.photo_path = None,
              !.raised_at = @ \cup {<<e, step>>}]

\* except Exception: failed_count += 1, then the write of failed.
Except(r, e, step) ==
    [r EXCEPT !.failed_count = @ + 1, !.pc = "failed", !.photo_path = None,
              !.raised_at = @ \cup {<<e, step>>}]

\* History: an attempt on e begins; the attempt of invocation i on e ends
\* with the write of status. A call of the attempt was made to raise when a
\* step other than the read of the photo raised.
Begin(e) ==
    settled' = [settled EXCEPT ![e] = IF @.status = None THEN Unsettled(FALSE) ELSE @]
Settle(i, e, status) ==
    LET faulted == \E step \in Steps \ {"photo"} : <<e, step>> \in rc[i].raised_at
    IN  settled' = [settled EXCEPT ![e] =
                       IF faulted \/ @.written THEN Unsettled(TRUE)
                       ELSE [status |-> status, faces |-> FacesOf(EventCollection(e)),
                             written |-> FALSE]]

\* _run, lines 27-44: the settings check and the windowed query.
run_start(i, window_minutes, s3_bucket_name, ok) ==
    /\ rc[i].pc \in {"idle", "raised"}
    /\ steps + (IF ok THEN 1 ELSE 2) <= MaxSteps
    /\ steps' = steps + (IF ok THEN 1 ELSE 2)
    /\ IF s3_bucket_name = None \/ ~ok
       THEN rc' = [rc EXCEPT ![i] = [IdleRc EXCEPT !.pc = "raised"]]
       ELSE LET events == get_events_pending_indexing(window_minutes)
            IN  rc' = [rc EXCEPT ![i] =
                          [IdleRc EXCEPT !.events = events,
                                         !.pc = IF events = <<>> THEN "return"
                                                ELSE "in_progress"]]
    /\ UNCHANGED <<db_vars, indexing_status, collections, face_ids, api_vars, hist_vars>>

\* A write of in_progress whose error is swallowed: the attempt goes on.
run_set_in_progress_unchecked(i, ok) ==
    /\ rc[i].pc = "in_progress"
    /\ Call(ok)
    /\ LET e == CurrentEvent(i)
       IN  IF ok
           THEN /\ indexing_status' = [indexing_status EXCEPT ![e] = IN_PROGRESS]
                /\ rc' = [rc EXCEPT ![i].pc = "ensure", ![i].wrote[e] = IN_PROGRESS]
           ELSE /\ rc' = [rc EXCEPT ![i].pc = "ensure"]
                /\ UNCHANGED indexing_status
    /\ Begin(CurrentEvent(i))
    /\ UNCHANGED <<db_vars, collections, face_ids, api_vars, ever_allowed, revoked_all>>

\* A write of in_progress that is a claim: it skips an event that another
\* invocation has in progress.
run_set_in_progress_exclusive(i, ok) ==
    /\ rc[i].pc = "in_progress"
    /\ Call(ok)
    /\ LET e == CurrentEvent(i)
       IN  IF ~ok
           THEN /\ rc' = [rc EXCEPT ![i] = Except(@, e, "in_progress")]
                /\ UNCHANGED indexing_status
           ELSE IF indexing_status[e] = IN_PROGRESS
           THEN /\ rc' = [rc EXCEPT ![i] = NextEvent(@)]
                /\ UNCHANGED indexing_status
           ELSE /\ indexing_status' = [indexing_status EXCEPT ![e] = IN_PROGRESS]
                /\ rc' = [rc EXCEPT ![i].pc = "ensure", ![i].wrote[e] = IN_PROGRESS]
    /\ Begin(CurrentEvent(i))
    /\ UNCHANGED <<db_vars, collections, face_ids, api_vars, ever_allowed, revoked_all>>

\* lines 49-53: the write of in_progress.
run_set_in_progress(i, ok) ==
    /\ rc[i].pc = "in_progress"
    /\ Call(ok)
    /\ LET e == CurrentEvent(i)
       IN  IF ok
           THEN /\ indexing_status' = [indexing_status EXCEPT ![e] = IN_PROGRESS]
                /\ rc' = [rc EXCEPT ![i].pc = "ensure", ![i].wrote[e] = IN_PROGRESS]
           ELSE /\ rc' = [rc EXCEPT ![i] = Except(@, e, "in_progress")]
                /\ UNCHANGED indexing_status
    /\ Begin(CurrentEvent(i))
    /\ UNCHANGED <<db_vars, collections, face_ids, api_vars, ever_allowed, revoked_all>>

\* lines 55-57: ensure_collection_exists(collection_id) creates the collection
\* and ignores the already-exists error; any other error is raised.
run_ensure_collection(i, ok) ==
    /\ rc[i].pc = "ensure"
    /\ Call(ok)
    /\ LET e == CurrentEvent(i)
       IN  IF ok
           THEN /\ collections' = CreateCollection(EventCollection(e))
                /\ rc' = [rc EXCEPT ![i].pc = "query"]
           ELSE /\ rc' = [rc EXCEPT ![i] = Except(@, e, "ensure")]
                /\ UNCHANGED collections
    /\ AssignFaceIds
    /\ UNCHANGED <<db_vars, indexing_status, api_vars, hist_vars>>

\* A query that returns every member of the event, whatever the consent row.
run_query_members(i, ok) ==
    /\ rc[i].pc = "query"
    /\ Call(ok)
    /\ LET e == CurrentEvent(i)
       IN  IF ok
           THEN \E user_ids \in Orders({u \in Users : <<e, u>> \in memberships}) :
                    rc' = [rc EXCEPT ![i].user_ids = user_ids, ![i].j = 1,
                                     ![i].pc = IF user_ids = <<>> THEN "completed"
                                               ELSE "profile"]
           ELSE rc' = [rc EXCEPT ![i] = Except(@, e, "query")]
    /\ UNCHANGED <<db_vars, indexing_status, collections, face_ids, api_vars, hist_vars>>

\* lines 59-62: the consent query.
run_query_consents(i, ok) ==
    /\ rc[i].pc = "query"
    /\ Call(ok)
    /\ LET e == CurrentEvent(i)
       IN  IF ok
           THEN \E user_ids \in get_event_recognition_users(e) :
                    rc' = [rc EXCEPT ![i].user_ids = user_ids, ![i].j = 1,
                                     ![i].pc = IF user_ids = <<>> THEN "completed"
                                               ELSE "profile"]
           ELSE rc' = [rc EXCEPT ![i] = Except(@, e, "query")]
    /\ UNCHANGED <<db_vars, indexing_status, collections, face_ids, api_vars, hist_vars>>

\* lines 64-71: the profile read; a user without a profile, or whose
\* photo_path is None or empty, is skipped.
run_get_profile(i, ok) ==
    /\ rc[i].pc = "profile"
    /\ Call(ok)
    /\ LET e == CurrentEvent(i)
           u == CurrentUser(i)
       IN  IF ~ok THEN rc' = [rc EXCEPT ![i] = Except(@, e, "profile")]
           ELSE IF PhotoPathOf(u) \in {None, ""}
           THEN rc' = [rc EXCEPT ![i] = NextUser(@)]
           ELSE rc' = [rc EXCEPT ![i].pc = "index", ![i].photo_path = PhotoPathOf(u)]
    /\ UNCHANGED <<db_vars, indexing_status, collections, face_ids, api_vars, hist_vars>>

\* lines 73-79: index_face_from_s3 with object_key = profile.photo_path, the
\* key that the profile read returned, and image_id = str(user_id). The call
\* returns the backend's response for the object that is under the key at
\* the time of the call: an image without a face indexes nothing and raises
\* nothing; an unreadable image, a key without an object or a backend error
\* raises.
run_index_face(i, ok) ==
    /\ rc[i].pc = "index"
    /\ Call(ok)
    /\ LET e == CurrentEvent(i)
           u == CurrentUser(i)
           image == GetObject(rc[i].photo_path)
       IN  IF ~ok \/ image.kind \in {"corrupt", "missing"}
           THEN /\ rc' = [rc EXCEPT ![i] = Except(@, e, IF ok THEN "photo" ELSE "index")]
                /\ UNCHANGED collections
           ELSE /\ rc' = [rc EXCEPT ![i] = NextUser(@)]
                /\ IF image.kind = "noface" THEN UNCHANGED collections
                   ELSE collections' \in IndexFacesOutcomes(EventCollection(e), image, u)
    /\ AssignFaceIds
    /\ UNCHANGED <<db_vars, indexing_status, api_vars, hist_vars>>

\* lines 81-86: the write of completed, then processed_count += 1.
run_set_completed(i, ok) ==
    /\ rc[i].pc = "completed"
    /\ Call(ok)
    /\ LET e == CurrentEvent(i)
       IN  IF ok
           THEN /\ indexing_status' = [indexing_status EXCEPT ![e] = COMPLETED]
                /\ rc' = [rc EXCEPT ![i] =
                             NextEvent([@ EXCEPT !.processed_count = @ + 1,
                                                 !.wrote[e] = COMPLETED])]
                /\ Settle(i, e, COMPLETED)
           ELSE /\ rc' = [rc EXCEPT ![i] = Except(@, e, "completed")]
                /\ UNCHANGED <<indexing_status, settled>>
    /\ UNCHANGED <<db_vars, collections, face_ids, api_vars, ever_allowed, revoked_all>>

\* An except block that also empties the collection of the event.
run_set_failed_rolling_back(i, ok) ==
    /\ rc[i].pc = "failed"
    /\ Call(ok)
    /\ LET e == CurrentEvent(i)
       IN  IF ok
           THEN /\ indexing_status' = [indexing_status EXCEPT ![e] = FAILED]
                /\ rc' = [rc EXCEPT ![i] = NextEvent([@ EXCEPT !.wrote[e] = FAILED])]
                /\ collections' = [c \in DOMAIN collections |->
                                      IF c = EventCollection(e) THEN {}
                                      ELSE collections[c]]
                /\ settled' = [settled EXCEPT ![e] = Unsettled(TRUE)]
           ELSE /\ rc' = [rc EXCEPT ![i].pc = "raised",
                                    ![i].raised_at = @ \cup {<<e, "failed">>}]
                /\ settled' = [settled EXCEPT ![e] = Unsettled(TRUE)]
                /\ UNCHANGED <<indexing_status, collections>>
    /\ AssignFaceIds
    /\ UNCHANGED <<db_vars, api_vars, ever_allowed, revoked_all>>

\* lines 87-94: the write of failed in the except block; an exception it
\* raises leaves _run.
run_set_failed(i, ok) ==
    /\ rc[i].pc = "failed"
    /\ Call(ok)
    /\ LET e == CurrentEvent(i)
       IN  IF ok
           THEN /\ indexing_status' = [indexing_status EXCEPT ![e] = FAILED]
                /\ rc' = [rc EXCEPT ![i] = NextEvent([@ EXCEPT !.wrote[e] = FAILED])]
                /\ Settle(i, e, FAILED)
           ELSE /\ rc' = [rc EXCEPT ![i].pc = "raised",
                                    ![i].raised_at = @ \cup {<<e, "failed">>}]
                /\ settled' = [settled EXCEPT ![e] = Unsettled(TRUE)]
                /\ UNCHANGED indexing_status
    /\ UNCHANGED <<db_vars, collections, face_ids, api_vars, ever_allowed, revoked_all>>

\* lines 96-102: the result.
run_return(i) ==
    /\ rc[i].pc = "return"
    /\ rc' = [rc EXCEPT ![i].pc = "idle",
                        ![i].result = <<[events_scanned |-> Len(rc[i].events),
                                         events_completed |-> rc[i].processed_count,
                                         events_failed |-> rc[i].failed_count]>>]
    /\ UNCHANGED <<db_vars, indexing_status, collections, face_ids, api_vars, hist_vars, steps>>

_run(i) ==
    \/ \E w \in WindowChoices, b \in {None, "bucket"}, ok \in BOOLEAN : run_start(i, w, b, ok)
    \/ \E ok \in BOOLEAN : run_set_in_progress(i, ok)
    \/ \E ok \in BOOLEAN : run_ensure_collection(i, ok)
    \/ \E ok \in BOOLEAN : run_query_consents(i, ok)
    \/ \E ok \in BOOLEAN : run_get_profile(i, ok)
    \/ \E ok \in BOOLEAN : run_index_face(i, ok)
    \/ \E ok \in BOOLEAN : run_set_completed(i, ok)
    \/ \E ok \in BOOLEAN : run_set_failed(i, ok)
    \/ run_return(i)

\* --------------------------------------------------- the recognition API
\* The exceptions a service call ends with, and the status the API gives each:
\* FaceNotFoundError is caught as 400, RekognitionError as 502, and a
\* ClientError of the provider is caught nowhere (500).
StatusOf(raised, ok_status) ==
    IF raised = None THEN ok_status
    ELSE IF raised = "FaceNotFoundError" THEN 400
    ELSE IF raised = "RekognitionError" THEN 502
    ELSE 500

\* Image bytes that the backend rejects with an error of its own.
Unreadable(image) == image.kind \in {"corrupt", "empty"}

\* detect_faces: any ClientError (a backend fault, an image the backend cannot
\* read) is raised as RekognitionError.
detect_faces(image, fault) ==
    IF fault = "detect" \/ Unreadable(image) THEN "RekognitionError" ELSE None

\* SearchFacesByImage with MaxFaces: the answers the backend can give, each
\* at most MaxFaces of the stored faces that show the person of the frame.
FaceMatches(cid, image, MaxFaces) ==
    LET similar == {f \in FacesOf(cid) : f.image.kind = "face" /\ f.image.who = image.who}
        n == IF Cardinality(similar) < MaxFaces THEN Cardinality(similar) ELSE MaxFaces
    IN  {S \in SUBSET similar : Cardinality(S) = n}

\* max_faces or self._max_faces: the default replaces None and 0.
OrDefault(given, default) ==
    IF given = Absent \/ given[1] = 0 THEN default ELSE given[1]

\* search_faces_by_image: the outcomes, each with the parameters of the
\* backend call and the user ids of the matches; InvalidParameterException
\* (no face in the image) gives [], any other ClientError (a backend fault, an
\* image the backend cannot read, no collection) is raised as
\* RekognitionError.
search_faces_by_image(image, max_faces, threshold, fault) ==
    LET call == [MaxFaces |-> OrDefault(max_faces, rekognition_max_faces),
                 FaceMatchThreshold |->
                     OrDefault(threshold, rekognition_face_match_threshold)]
    IN  IF fault = "search" \/ Unreadable(image) \/ ~CollectionExists(SettingsCollection)
        THEN {[raised |-> "RekognitionError", matches |-> {}, call |-> call]}
        ELSE IF image.kind = "noface"
        THEN {[raised |-> None, matches |-> {}, call |-> call]}
        ELSE {[raised |-> None, matches |-> {f.external_id : f \in S}, call |-> call] :
                 S \in FaceMatches(SettingsCollection, image, call.MaxFaces)}

\* index_face with external image id str(user_id): the outcomes. Empty
\* FaceRecords and InvalidParameterException are raised as FaceNotFoundError,
\* any other ClientError (a backend fault, an image the backend cannot read,
\* no collection) as RekognitionError.
index_face(u, image, fault) ==
    IF fault = "index" \/ Unreadable(image) \/ ~CollectionExists(SettingsCollection)
    THEN {[raised |-> "RekognitionError", collections |-> collections]}
    ELSE IF fault = "invalid_parameter" \/ image.kind = "noface"
    THEN {[raised |-> "FaceNotFoundError", collections |-> collections]}
    ELSE LET held == FacesOf(SettingsCollection)
             fresh == [face_id |-> NextFaceId(SettingsCollection),
                       external_id |-> u, image |-> image]
             stored == \E f \in held : f.external_id = u /\ f.image = image
         IN  {[raised |-> None,
               collections |-> Upsert(collections, SettingsCollection, held \cup {fresh})]}
             \cup (IF stored THEN {[raised |-> None, collections |-> collections]} ELSE {})

\* list_faces(MaxResults=100), read once: the faces of user u that the one
\* page can hold; when the collection holds more than MaxResults faces, any
\* of them can be on a later page.
ListFaces(cid, u) ==
    LET mine == {f \in FacesOf(cid) : f.external_id = u}
        over == Cardinality(FacesOf(cid)) - MaxResults
    IN  IF over <= 0 THEN {mine}
        ELSE {mine \ unlisted : unlisted \in
                 {S \in SUBSET mine : /\ Cardinality(S) <= over
                                       /\ over - Cardinality(S) <=
                                              Cardinality(FacesOf(cid) \ mine)}}

\* The last request answered and its response: the operation, the payload of
\* the request (<<>> without one), the status, the user ids matched or
\* indexed, the parameters of the search call (<<>> when none was made) and
\* the deleted_count.
Respond(op, image, status, matches, search, deleted_count) ==
    response' = [op |-> op, image |-> image, status |-> status, matches |-> matches,
                 search |-> search, deleted_count |-> deleted_count, stats |-> <<>>]

\* A request to the recognition API that a worker takes up.
ApiRequest ==
    /\ steps < MaxSteps
    /\ InFlight < Cardinality(Workers)
    /\ steps' = steps + 1

\* A call of the backend that answers (fault = "none") or is made to fail.
BackendCall(fault) ==
    /\ fault # "none" => steps < MaxSteps
    /\ steps' = IF fault = "none" THEN steps ELSE steps + 1

\* A request served with one call of the backend.
ApiCall(fault) ==
    /\ InFlight < Cardinality(Workers)
    /\ steps + (IF fault = "none" THEN 1 ELSE 2) <= MaxSteps
    /\ steps' = steps + (IF fault = "none" THEN 1 ELSE 2)

\* A handler of the recognition API in flight: the route (op), the call it
\* makes next (pc), current_user.id, the payload of the request and the image
\* bytes decoded from it (Absent without a payload), event_id, max_faces and
\* threshold of the request, and face_ids_to_delete.
Handler(op, pc, user_id, image_base64, image_bytes, event_id, max_faces, threshold) ==
    [op |-> op, pc |-> pc, user_id |-> user_id, image_base64 |-> image_base64,
     image_bytes |-> image_bytes, event_id |-> event_id, max_faces |-> max_faces,
     threshold |-> threshold, face_ids_to_delete |-> {}]

\* The handler r goes on to its next call, or ends.
Continue(r, next) ==
    requests' = (requests (-) SetToBag({r})) (+) SetToBag({next})
Finish(r) ==
    requests' = requests (-) SetToBag({r})

\* base64_string.split(",", 1)[1]: what follows the prefix of a data URL, as
\* <<what the string is, the image bytes that were encoded>>.
AfterComma(base64_string) == <<base64_string[1], base64_string[3]>>

\* decode_base64_image: the part after the first comma, when there is a
\* comma, is given to b64decode, which drops the characters that are not of
\* the base64 alphabet and raises for what is left when its padding is
\* incorrect: <<the image bytes>>, or <<>> when b64decode raises.
decode_base64_image(base64_string) ==
    LET body == AfterComma(base64_string)
    IN  IF body[1] = "bad_padding" THEN <<>>
        ELSE IF body[1] = "not_base64" THEN <<Empty>>
        ELSE <<body[2]>>

\* POST /recognition/detect, lines 62-70: decode; 400 when it raises. The
\* handler then calls ensure_collection_exists. The request's event_id is
\* returned with the response and used nowhere else.
detect_faces_in_frame(image_base64, event_id, max_faces, threshold) ==
    /\ ApiRequest
    /\ IF decode_base64_image(image_base64) = <<>>
       THEN /\ Respond("detect", <<image_base64>>, 400, {}, <<>>, 0)
            /\ UNCHANGED requests
       ELSE /\ requests' = requests (+) SetToBag({
                   Handler("detect", "describe", 0, Given(image_base64),
                           decode_base64_image(image_base64), event_id, max_faces,
                           threshold)})
            /\ UNCHANGED response
    /\ UNCHANGED <<db_vars, indexing_status, collections, face_ids, rc, hist_vars>>

\* POST /recognition/index, lines 123-130: decode; 400 when it raises. The
\* handler then calls ensure_collection_exists.
index_user_face(u, image_base64) ==
    /\ ApiRequest
    /\ IF decode_base64_image(image_base64) = <<>>
       THEN /\ Respond("index", <<image_base64>>, 400, {}, <<>>, 0)
            /\ UNCHANGED requests
       ELSE /\ requests' = requests (+) SetToBag({
                   Handler("index", "describe", u, Given(image_base64),
                           decode_base64_image(image_base64), 0, Absent, Absent)})
            /\ UNCHANGED response
    /\ UNCHANGED <<db_vars, indexing_status, collections, face_ids, rc, hist_vars>>

\* The call that follows ensure_collection_exists in the handler.
AfterEnsure(r) == [r EXCEPT !.pc = IF r.op = "detect" THEN "detect" ELSE "index"]

\* RekognitionService.ensure_collection_exists, line 63: describe_collection
\* returns, or raises ResourceNotFoundException and the create call is next;
\* another error is raised as RekognitionError (502).
ensure_describe(r, fault) ==
    /\ BagIn(r, requests) /\ r.pc = "describe"
    /\ fault \in {"none", "describe"}
    /\ BackendCall(fault)
    /\ IF fault = "describe"
       THEN /\ Finish(r)
            /\ Respond(r.op, r.image_base64, StatusOf("RekognitionError", 200),
                       {}, <<>>, 0)
       ELSE /\ Continue(r, IF CollectionExists(SettingsCollection) THEN AfterEnsure(r)
                           ELSE [r EXCEPT !.pc = "create"])
            /\ UNCHANGED response
    /\ UNCHANGED <<db_vars, indexing_status, collections, face_ids, rc, hist_vars>>

\* RekognitionService.ensure_collection_exists, lines 65-67: create_collection
\* in the except block. The backend raises ResourceAlreadyExistsException for
\* a collection that exists by now; any ClientError of the call leaves the
\* handler as it is (500).
ensure_create(r, fault) ==
    /\ BagIn(r, requests) /\ r.pc = "create"
    /\ fault \in {"none", "create"}
    /\ BackendCall(fault)
    /\ IF fault = "create" \/ CollectionExists(SettingsCollection)
       THEN /\ Finish(r)
            /\ Respond(r.op, r.image_base64, StatusOf("ClientError", 200), {}, <<>>, 0)
            /\ UNCHANGED collections
       ELSE /\ collections' = Upsert(collections, SettingsCollection, {})
            /\ Continue(r, AfterEnsure(r))
            /\ UNCHANGED response
    /\ AssignFaceIds
    /\ UNCHANGED <<db_vars, indexing_status, rc, hist_vars>>

\* POST /recognition/detect, lines 75-76: detect_faces.
detect_faces_call(r, fault) ==
    /\ BagIn(r, requests) /\ r.pc = "detect"
    /\ fault \in {"none", "detect"}
    /\ BackendCall(fault)
    /\ IF detect_faces(r.image_bytes[1], fault) # None
       THEN /\ Finish(r)
            /\ Respond("detect", r.image_base64,
                       StatusOf(detect_faces(r.image_bytes[1], fault), 200), {}, <<>>, 0)
       ELSE /\ Continue(r, [r EXCEPT !.pc = "search"])
            /\ UNCHANGED response
    /\ UNCHANGED <<db_vars, indexing_status, collections, face_ids, rc, hist_vars>>

\* POST /recognition/detect, lines 78-108: search_faces_by_image and the
\* response.
search_faces_call(r, fault) ==
    /\ BagIn(r, requests) /\ r.pc = "search"
    /\ fault \in {"none", "search"}
    /\ BackendCall(fault)
    /\ Finish(r)
    /\ \E found \in search_faces_by_image(r.image_bytes[1], r.max_faces, r.threshold, fault) :
          Respond("detect", r.image_base64, StatusOf(found.raised, 200),
                  found.matches, <<found.call>>, 0)
    /\ UNCHANGED <<db_vars, indexing_status, collections, face_ids, rc, hist_vars>>

\* POST /recognition/index, lines 134-155: index_face with external image id
\* str(current_user.id), and the response.
index_face_call(r, fault) ==
    /\ BagIn(r, requests) /\ r.pc = "index"
    /\ fault \in {"none", "index", "invalid_parameter"}
    /\ BackendCall(fault)
    /\ Finish(r)
    /\ \E indexed \in index_face(r.user_id, r.image_bytes[1], fault) :
          /\ Respond("index", r.image_base64, StatusOf(indexed.raised, 201),
                     IF indexed.raised = None THEN {r.user_id} ELSE {}, <<>>, 0)
          /\ collections' = indexed.collections
    /\ AssignFaceIds
    /\ UNCHANGED <<db_vars, indexing_status, rc, hist_vars>>

\* A deregistration that also withdraws the user's recognition consents.
delete_my_faces_revoking(u) ==
    /\ ApiRequest
    /\ requests' = requests (+) SetToBag({
           Handler("delete", "list", u, Absent, Absent, 0, Absent, Absent)})
    /\ consents' = [p \in DOMAIN consents |->
                       IF p[2] = u THEN [consents[p] EXCEPT !.allow_recognition = FALSE]
                       ELSE consents[p]]
    /\ UNCHANGED <<memberships, photo_path, bucket, pending, indexing_status, collections,
                   face_ids, rc, response, hist_vars>>

\* DELETE /recognition/faces/me: the handler calls delete_faces_by_user.
delete_my_faces(u) ==
    /\ ApiRequest
    /\ requests' = requests (+) SetToBag({
           Handler("delete", "list", u, Absent, Absent, 0, Absent, Absent)})
    /\ UNCHANGED <<db_vars, indexing_status, collections, face_ids, rc, response, hist_vars>>

\* delete_faces_by_user, lines 255-267: list_faces, once; the faces listed
\* with the external image id of the user are face_ids_to_delete, and without
\* one the count is 0. Any ClientError (the collection missing included) is
\* raised as RekognitionError.
delete_faces_by_user_list(r, fault) ==
    /\ BagIn(r, requests) /\ r.pc = "list"
    /\ fault \in {"none", "list"}
    /\ BackendCall(fault)
    /\ IF fault = "list" \/ ~CollectionExists(SettingsCollection)
       THEN Finish(r) /\ Respond("delete", <<>>, 502, {}, <<>>, 0)
       ELSE \E face_ids_to_delete \in ListFaces(SettingsCollection, r.user_id) :
              IF face_ids_to_delete = {}
              THEN Finish(r) /\ Respond("delete", <<>>, 200, {}, <<>>, 0)
              ELSE /\ Continue(r, [r EXCEPT !.pc = "delete",
                                            !.face_ids_to_delete = face_ids_to_delete])
                   /\ UNCHANGED response
    /\ UNCHANGED <<db_vars, indexing_status, collections, face_ids, rc, hist_vars>>

\* delete_faces_by_user, lines 269-274: delete_faces with the ids listed; the
\* count is the number of faces the backend deleted.
delete_faces_by_user_delete(r, fault) ==
    /\ BagIn(r, requests) /\ r.pc = "delete"
    /\ fault \in {"none", "delete"}
    /\ BackendCall(fault)
    /\ Finish(r)
    /\ IF fault = "delete" \/ ~CollectionExists(SettingsCollection)
       THEN Respond("delete", <<>>, 502, {}, <<>>, 0) /\ UNCHANGED collections
       ELSE /\ Respond("delete", <<>>, 200, {}, <<>>,
                       Cardinality(r.face_ids_to_delete \cap FacesOf(SettingsCollection)))
            /\ collections' = Upsert(collections, SettingsCollection,
                   FacesOf(SettingsCollection) \ r.face_ids_to_delete)
    /\ AssignFaceIds
    /\ UNCHANGED <<db_vars, indexing_status, rc, hist_vars>>

\* RekognitionService.delete_face(face_id), which no route calls: delete_faces
\* with the one id; any ClientError is raised as RekognitionError.
delete_face(face, fault) ==
    /\ fault \in {"none", "delete"}
    /\ ApiCall(fault)
    /\ face \in FacesOf(SettingsCollection)
    /\ collections' = IF fault = "delete" THEN collections
                      ELSE Upsert(collections, SettingsCollection,
                                  FacesOf(SettingsCollection) \ {face})
    /\ AssignFaceIds
    /\ UNCHANGED <<db_vars, indexing_status, rc, api_vars, hist_vars>>

\* POST /recognition/detect-only: decode, detect; no collection is used.
detect_faces_only(image_base64, fault) ==
    /\ fault \in {"none", "detect"}
    /\ ApiCall(fault)
    /\ IF decode_base64_image(image_base64) = <<>>
       THEN Respond("detect-only", <<image_base64>>, 400, {}, <<>>, 0)
       ELSE Respond("detect-only", <<image_base64>>,
                    StatusOf(detect_faces(decode_base64_image(image_base64)[1], fault), 200),
                    {}, <<>>, 0)
    /\ UNCHANGED <<db_vars, indexing_status, collections, face_ids, rc, requests, hist_vars>>

\* A get_collection_stats that raises the generic error for a collection that
\* was never created.
service_get_collection_stats_generic(fault) ==
    IF fault = "describe" \/ ~CollectionExists(SettingsCollection)
    THEN [raised |-> "RekognitionError", stats |-> <<>>]
    ELSE [raised |-> None,
          stats |-> <<[collection_id |-> SettingsCollection,
                       face_count |-> Cardinality(FacesOf(SettingsCollection))]>>]

\* RekognitionService.get_collection_stats: describe_collection; its
\* ResourceNotFoundException is raised as CollectionNotFoundError, any other
\* ClientError as RekognitionError.
service_get_collection_stats(fault) ==
    IF fault = "describe"
    THEN [raised |-> "RekognitionError", stats |-> <<>>]
    ELSE IF ~CollectionExists(SettingsCollection)
    THEN [raised |-> "CollectionNotFoundError", stats |-> <<>>]
    ELSE [raised |-> None,
          stats |-> <<[collection_id |-> SettingsCollection,
                       face_count |-> Cardinality(FacesOf(SettingsCollection))]>>]

\* GET /recognition/stats: CollectionNotFoundError is caught as 404, before
\* RekognitionError as 502.
get_collection_stats(fault) ==
    /\ fault \in {"none", "describe"}
    /\ ApiCall(fault)
    /\ LET stats == service_get_collection_stats(fault)
       IN  response' = [NoResponse EXCEPT
                           !.op = "stats",
                           !.status = IF stats.raised = "CollectionNotFoundError" THEN 404
                                      ELSE StatusOf(stats.raised, 200),
                           !.stats = stats.stats]
    /\ UNCHANGED <<db_vars, indexing_status, collections, face_ids, rc, requests, hist_vars>>

\* A call of the backend by the handler r in flight, answered or made to fail.
HandlerCall(r, fault) ==
    \/ ensure_describe(r, fault)
    \/ ensure_create(r, fault)
    \/ detect_faces_call(r, fault)
    \/ search_faces_call(r, fault)
    \/ index_face_call(r, fault)
    \/ delete_faces_by_user_list(r, fault)
    \/ delete_faces_by_user_delete(r, fault)

\* The membership, consent, profile and event API, with the calls of its
\* handlers in flight.
ConsentApi ==
    \/ \E e \in Events, u \in Users : join_event(e, u)
    \/ \E e \in Events, u \in Users, ok \in BOOLEAN : join_event_insert_membership(e, u, ok)
    \/ \E e \in Events, u \in Users, ok \in BOOLEAN : join_event_create_consent(e, u, ok)
    \/ \E e \in Events, u \in Users : leave_event(e, u)
    \/ \E e \in Events, u \in Users, ok \in BOOLEAN : leave_event_delete_membership(e, u, ok)
    \/ \E e \in Events, u \in Users, data \in ConsentUpdate : update_my_consent(e, u, data)
    \/ \E c \in {w \in BagToSet(pending) : w.call = "consent_dal.update"}, ok \in BOOLEAN :
          update_my_consent_write(c.key[1], c.key[2], c.update_data, ok)
    \/ \E e \in Events, u \in Users : grant_all_consents(e, u)
    \/ \E e \in Events, u \in Users : revoke_all_consents(e, u)
    \/ \E u \in Users, p \in {None} \cup PhotoPaths : create_my_profile(u, p)
    \/ \E u \in Users, p \in {None} \cup PhotoPaths, ok \in BOOLEAN :
          profile_dal_create(u, p, ok)
    \/ \E u \in Users, p \in PhotoPaths : update_profile_photo(u, p)
    \/ \E u \in Users : delete_my_profile(u)
    \/ \E u \in Users : \E image \in Pictures(u), image_saved \in BOOLEAN :
          onboard_from_linkedin_url(u, image, image_saved)
    \/ \E u \in Users : \E p \in {None, object_key(u)}, ok \in BOOLEAN :
          onboard_get_profile(u, p, ok)
    \/ \E u \in Users, p \in {None} \cup PhotoPaths, ok \in BOOLEAN :
          onboard_save_profile(u, p, ok)
    \/ \E u \in Users : delete_profile_picture(object_key(u))
    \/ \E e \in Events : create_event(e)
    \/ \E e \in Events, status \in EventProcessingStatus : update_event(e, status)

\* The recognition API with frames that show a user and a backend that
\* answers every call.
RecognitionApi ==
    \/ \E u \in Users, e \in Events :
          detect_faces_in_frame(Base64(FaceOf(u), FALSE), e, Absent, Absent)
    \/ \E u \in Users, v \in Users : index_user_face(u, Base64(FaceOf(v), FALSE))
    \/ \E u \in Users : delete_my_faces(u)
    \/ \E r \in BagToSet(requests), fault \in {"none"} : ensure_describe(r, fault)
    \/ \E r \in BagToSet(requests), fault \in {"none"} : ensure_create(r, fault)
    \/ \E r \in BagToSet(requests), fault \in {"none"} : detect_faces_call(r, fault)
    \/ \E r \in BagToSet(requests), fault \in {"none"} : search_faces_call(r, fault)
    \/ \E r \in BagToSet(requests), fault \in {"none"} : index_face_call(r, fault)
    \/ \E r \in BagToSet(requests), fault \in {"none"} : delete_faces_by_user_list(r, fault)
    \/ \E r \in BagToSet(requests), fault \in {"none"} : delete_faces_by_user_delete(r, fault)

Next ==
    \/ ConsentApi
    \/ RecognitionApi
    \/ _run("a")

Spec == Init /\ [][Next]_vars

\* The face that POST /recognition/index stores first for user 1.
Registered == {[face_id |-> 1, external_id |-> 1, image |-> FaceOf(1)]}

\* The recognition API alone, with every request payload and with provider
\* errors: before any request, when there is no settings collection, or after
\* a request that created it, when it is empty or holds the faces of other
\* attendees, or before the requests that follow the registration of user 1.
RecognitionInit ==
    /\ memberships = SeedMembers
    /\ consents = SeedConsents
    /\ photo_path = SeedPhotos
    /\ bucket = SeedBucket
    /\ pending = EmptyBag
    /\ indexing_status = [e \in SeedEvents |-> PENDING]
    /\ \/ collections = <<>> /\ steps = 0
       \/ /\ collections \in {Upsert(<<>>, SettingsCollection, {}),
                            Upsert(<<>>, SettingsCollection, Crowd)}
          /\ steps = 1
       \/ collections = Upsert(<<>>, SettingsCollection, Registered) /\ steps = 0
    /\ face_ids = [c \in DOMAIN collections |-> MaxFaceId(collections[c])]
    /\ rc = [i \in Invocations |-> IdleRc]
    /\ response = NoResponse
    /\ requests = EmptyBag
    /\ ever_allowed = {p \in SeedMembers : SeedConsents[p].allow_recognition}
    /\ revoked_all = {}
    /\ settled = [e \in Events |-> Unsettled(TRUE)]

\* The faults of the backend calls.
Faults == {"none", "describe", "create", "detect", "search", "index", "invalid_parameter",
           "list", "delete"}

RecognitionNext ==
    \/ \E frame \in Frames, choice \in SearchChoices :
          detect_faces_in_frame(frame, 1, choice[1], choice[2])
    \/ \E u \in Users, image \in Frames : index_user_face(u, image)
    \/ \E u \in Users : delete_my_faces(u)
    \/ \E r \in BagToSet(requests), fault \in Faults : ensure_describe(r, fault)
    \/ \E r \in BagToSet(requests), fault \in Faults : ensure_create(r, fault)
    \/ \E r \in BagToSet(requests), fault \in Faults : detect_faces_call(r, fault)
    \/ \E r \in BagToSet(requests), fault \in Faults : search_faces_call(r, fault)
    \/ \E r \in BagToSet(requests), fault \in Faults : index_face_call(r, fault)
    \/ \E r \in BagToSet(requests), fault \in Faults : delete_faces_by_user_list(r, fault)
    \/ \E r \in BagToSet(requests), fault \in Faults : delete_faces_by_user_delete(r, fault)
    \/ \E face \in FacesOf(SettingsCollection), fault \in {"none", "delete"} :
          delete_face(face, fault)
    \/ \E image \in Frames, fault \in {"none", "detect"} : detect_faces_only(image, fault)
    \/ \E fault \in {"none", "describe"} : get_collection_stats(fault)

RecognitionSpec == RecognitionInit /\ [][RecognitionNext]_vars

\* Two invocations of the event indexer that overlap.
OverlapNext ==
    \/ _run("a")
    \/ _run("b")

OverlapSpec == Init /\ [][OverlapNext]_vars

\* The recognition core alone (the event indexer, with calls that fail, and
\* the six operations of the recognition API), from stores that differ in who
\* granted the consents for event 1 and in who has a profile photo.
GrantedRow(granted) ==
    [allow_profile_display |-> granted, allow_recognition |-> granted,
     consented_at |-> IF granted THEN "earlier" ELSE None, revoked_at |-> None]

CoreInit ==
    /\ memberships = SeedMembers
    /\ \E granted \in [Users -> BOOLEAN] :
          /\ consents = [p \in SeedMembers |-> GrantedRow(granted[p[2]])]
          /\ ever_allowed = {p \in SeedMembers : granted[p[2]]}
    /\ \/ photo_path = SeedPhotos /\ bucket = SeedBucket
       \/ /\ photo_path = [u \in Users |-> object_key(u)]
          /\ bucket = [k \in {object_key(u) : u \in Users} |->
                           FaceOf(CHOOSE u \in Users : object_key(u) = k)]
    /\ pending = EmptyBag
    /\ indexing_status = [e \in SeedEvents |-> PENDING]
    /\ collections = <<>>
    /\ face_ids = [c \in DOMAIN collections |-> MaxFaceId(collections[c])]
    /\ rc = [i \in Invocations |-> IdleRc]
    /\ response = NoResponse
    /\ requests = EmptyBag
    /\ revoked_all = {}
    /\ settled = [e \in Events |-> Unsettled(TRUE)]
    /\ steps = 0

CoreNext ==
    \/ _run("a")
    \/ RecognitionApi
    \/ \E u \in Users : detect_faces_only(Base64(FaceOf(u), FALSE), "none")
    \/ get_collection_stats("none")

CoreSpec == CoreInit /\ [][CoreNext]_vars

\* ------------------------------------------------------------ properties
Range(q) == {q[n] : n \in DOMAIN q}

\* Invocation i has just ended its attempt on an event: the write of completed
\* or of failed returned and the loop moved on.
JustEnded(i) == rc[i].k > 1 /\ rc[i].pc \in {"in_progress", "return"}
EndedEvent(i) == rc[i].events[rc[i].k - 1]

\* C1 (P1, consent gating): after a pass completes successfully for an event,
\* every user with a face in the event's collection was returned by the consent
\* query of that pass (allow_recognition = true when the pass ran) and has a
\* photo_path.
ConsentGating ==
    \A i \in Invocations :
        (JustEnded(i) /\ rc[i].wrote[EndedEvent(i)] = COMPLETED) =>
            \A f \in FacesOf(EventCollection(EndedEvent(i))) :
                /\ f.external_id \in Range(rc[i].user_ids)
                /\ PhotoPathOf(f.external_id) \notin {None, ""}

\* C2 (P2, no accidental indexing): every face of an event's collection has
\* the external id of a user who at some time set allow_recognition = true for
\* that event.
NoAccidentalIndexing ==
    \A e \in Events : \A f \in FacesOf(EventCollection(e)) :
        <<e, f.external_id>> \in ever_allowed

\* A pass completed for an event one of whose members never allowed
\* recognition, and the collection holds a face.
NoAccidentalIndexingWitness ==
    \E e \in Events, u \in Users :
        /\ JustEnded("a") /\ EndedEvent("a") = e /\ rc["a"].wrote[e] = COMPLETED
        /\ <<e, u>> \in memberships /\ <<e, u>> \notin ever_allowed
        /\ PhotoPathOf(u) \notin {None, ""}
        /\ FacesOf(EventCollection(e)) # {}

\* C3 (P3, idempotent re-run): an attempt on an event in which no call raised,
\* made after an earlier such attempt with no consent or profile write since,
\* ends with the same faces in the collection and the same status.
IdempotentRerun ==
    [][\A e \in Events :
          (settled[e].status # None /\ settled'[e].status # None) =>
              settled'[e] = settled[e]]_vars

\* C4 (P4, isolation of per-user failures): an attempt in which the photo of
\* one user could not be read ends as completed, with every other user of the
\* consent query who has a photo showing a face in the collection.
FailureIsolation ==
    \A i \in Invocations :
        (JustEnded(i) /\ <<EndedEvent(i), "photo">> \in rc[i].raised_at) =>
            /\ rc[i].wrote[EndedEvent(i)] = COMPLETED
            /\ \A u \in Range(rc[i].user_ids) :
                   GetObject(PhotoPathOf(u)).kind = "face" =>
                       u \in ExternalIds(EventCollection(EndedEvent(i)))

\* C5 (P6, revocation gap): a write to a consent row changes nothing but the
\* consent store, and a face leaves a collection only by a successful
\* deregistration of its user.
RevocationGap ==
    [][/\ (consents' # consents /\ memberships' = memberships) =>
             /\ collections' = collections
             /\ photo_path' = photo_path
             /\ bucket' = bucket
             /\ indexing_status' = indexing_status
       /\ \A c \in DOMAIN collections : \A f \in collections[c] :
             \/ c \in DOMAIN collections' /\ f \in collections'[c]
             \/ /\ c = SettingsCollection
                /\ \E r \in BagToSet(requests) :
                      /\ r.op = "delete" /\ r.user_id = f.external_id
                      /\ delete_faces_by_user_delete(r, "none")]_vars

\* A user revoked all consents for an event, a later pass completed for the
\* event with no user returned by the consent query, and the face of the user
\* is still in the collection.
RevocationGapWitness ==
    \E e \in Events, u \in Users :
        /\ <<e, u>> \in revoked_all
        /\ JustEnded("a") /\ EndedEvent("a") = e /\ rc["a"].wrote[e] = COMPLETED
        /\ rc["a"].user_ids = <<>>
        /\ u \in ExternalIds(EventCollection(e))

\* C6: after revoke-all of a user for an event, no identify-frame call returns
\* a match with the id of that user.
RevokeDisablesRecognition ==
    [][\A r \in BagToSet(requests) :
          search_faces_call(r, "none") =>
              \A m \in response'.matches :
                  \A e2 \in Events : <<e2, m>> \notin revoked_all]_vars

\* C7 (scenario A): an identify-frame call scoped to an event, with a frame
\* showing a user the reconciler indexed into the collection of that event,
\* returns a match with the id of the user.
IdentifySearchesEventCollection ==
    [][\A r \in BagToSet(requests), u \in Users :
          (/\ r.image_bytes = <<FaceOf(u)>>
           /\ search_faces_call(r, "none")
           /\ \E f \in FacesOf(EventCollection(r.event_id)) :
                  f.external_id = u /\ f.image = FaceOf(u))
          => u \in response'.matches]_vars

\* C8: a step of the reconciler changes the indexing_status of an event only
\* from pending or failed to in_progress, or from in_progress to completed or
\* failed.
StatusTransitions ==
    [][rc' # rc =>
          \A e \in DOMAIN indexing_status :
              indexing_status'[e] # indexing_status[e] =>
                  \/ /\ indexing_status[e] \in {PENDING, FAILED}
                     /\ indexing_status'[e] = IN_PROGRESS
                  \/ /\ indexing_status[e] = IN_PROGRESS
                     /\ indexing_status'[e] \in {COMPLETED, FAILED}]_vars

\* C9: no exception raised while an event is processed leaves the run.
NoExceptionLeavesRun ==
    \A i \in Invocations : rc[i].pc = "raised" => rc[i].raised_at = {}

\* C10: a run that returns reports events_scanned = the number of events
\* selected = events_completed + events_failed, events_completed and
\* events_failed being the numbers of selected events it left completed and
\* failed; three selected events of which one raised in ensure_collection give
\* 3, 2, 1.
RunSummaryCounts ==
    \A i \in Invocations :
        rc[i].result # <<>> /\ rc[i].pc = "idle" =>
            LET result == rc[i].result[1]
                selected == Range(rc[i].events)
                left(status) == {e \in selected : rc[i].wrote[e] = status}
            IN  /\ result.events_scanned = Len(rc[i].events)
                /\ result.events_scanned = Cardinality(selected)
                /\ result.events_scanned = result.events_completed + result.events_failed
                /\ result.events_completed = Cardinality(left(COMPLETED))
                /\ result.events_failed = Cardinality(left(FAILED))
                /\ \A e \in selected : rc[i].wrote[e] \in {COMPLETED, FAILED}
                /\ (/\ Cardinality(selected) = 3
                    /\ \E e \in selected : rc[i].raised_at = {<<e, "ensure">>})
                   => result = [events_scanned |-> 3, events_completed |-> 2,
                                events_failed |-> 1]

\* A run over three events, one of which raised in ensure_collection, returned.
RunSummaryCountsWitness ==
    /\ rc["a"].pc = "idle" /\ rc["a"].result # <<>>
    /\ Len(rc["a"].events) = 3
    /\ \E e \in Events : rc["a"].raised_at = {<<e, "ensure">>}
    /\ rc["a"].result[1].events_failed = 1

\* C11: a write to a consent row sets consented_at to now and clears
\* revoked_at exactly when a flag goes false -> true, sets revoked_at to now
\* when a flag goes true -> false (and none goes false -> true), and changes
\* neither timestamp when no flag flips; a created row with both flags false
\* has neither timestamp.
ConsentTimestamps ==
    [][\A p \in DOMAIN consents' :
          IF p \notin DOMAIN consents
          THEN (~consents'[p].allow_profile_display /\ ~consents'[p].allow_recognition)
                   => consents'[p].consented_at = None /\ consents'[p].revoked_at = None
          ELSE LET old == consents[p]
                   new == consents'[p]
                   granted == \/ ~old.allow_profile_display /\ new.allow_profile_display
                              \/ ~old.allow_recognition /\ new.allow_recognition
                   revoked == \/ old.allow_profile_display /\ ~new.allow_profile_display
                              \/ old.allow_recognition /\ ~new.allow_recognition
               IN  new # old =>
                     /\ granted => new.consented_at = "now" /\ new.revoked_at = None
                     /\ ~granted => new.consented_at = Age(old.consented_at)
                     /\ (revoked /\ ~granted) => new.revoked_at = "now"
                     /\ (~revoked /\ ~granted) => new.revoked_at = Age(old.revoked_at)]_vars

\* C12: when no membership or consent request is in flight, a consent row
\* exists exactly for the pairs (event, user) that are members.
ConsentLifecycle ==
    pending = EmptyBag => DOMAIN consents = memberships

\* ------------------------------------------- properties: recognition API
\* C13: ensure_collection_exists, as the handlers of POST /recognition/detect
\* and POST /recognition/index call it, creates an empty collection when
\* there is none, leaves an existing collection as it is, and raises nothing
\* but RekognitionError (502), leaving the collections as they are.
EnsureCollectionIdempotent ==
    [][\A r \in BagToSet(requests), fault \in {"none", "describe", "create"} :
          (ensure_describe(r, fault) \/ ensure_create(r, fault)) =>
              /\ \A c \in DOMAIN collections :
                     c \in DOMAIN collections' /\ collections'[c] = collections[c]
              /\ Finish(r) => response'.status = 502 /\ collections' = collections
              /\ Continue(r, AfterEnsure(r)) =>
                     /\ CollectionExists(SettingsCollection)'
                     /\ FacesOf(SettingsCollection)' = FacesOf(SettingsCollection)]_vars

\* C14 (P5, graceful no-face): POST /recognition/detect with a frame that shows
\* no face returns 200 with no match when the backend answers every call; an
\* error of the search call gives 502.
GracefulNoFace ==
    [][\A r \in BagToSet(requests), fault \in {"none", "search"} :
          (/\ r.op = "detect" /\ r.image_bytes = <<NoFace>>
           /\ HandlerCall(r, fault) /\ Finish(r)) =>
              IF fault = "none"
              THEN /\ response'.status = 200
                   /\ response'.matches = {}
                   /\ response'.search # <<>>
              ELSE response'.status = 502]_vars

\* C15: in POST /recognition/detect, a provider error of the describe call,
\* the create call, the detect call or the search call ends the request
\* with 502.
GatewayErrors ==
    [][\A r \in BagToSet(requests), fault \in {"describe", "create", "detect", "search"} :
          (r.op = "detect" /\ HandlerCall(r, fault)) =>
              Finish(r) /\ response'.status = 502]_vars

\* The payloads that are not the base64 of image bytes.
Malformed == {BadPadding, NotBase64}

\* C16: a request with a payload that is no base64 of an image is answered 400
\* at once, before any call of the backend: no handler goes on with such a
\* payload, and the collections stay as they are.
DecodeFailureIsTerminal ==
    [][\A image_base64 \in Malformed :
          /\ (\/ \E choice \in SearchChoices :
                    detect_faces_in_frame(image_base64, 1, choice[1], choice[2])
               \/ \E u \in Users : index_user_face(u, image_base64)
               \/ \E fault \in {"none", "detect"} : detect_faces_only(image_base64, fault))
              => /\ response'.image = <<image_base64>> /\ response'.status = 400
                 /\ requests' = requests
                 /\ collections' = collections
          /\ \A r \in BagToSet(requests), fault \in Faults :
                 (r.image_base64 = <<image_base64>> /\ HandlerCall(r, fault)) =>
                     collections' = collections]_vars

\* C17: POST /recognition/detect on a collection that is missing or holds no
\* face, with a backend that answers every call, returns 200 with no match,
\* and the collection then exists and is empty.
LazyCreate ==
    [][\A r \in BagToSet(requests) :
          (/\ r.op = "detect" /\ r.image_bytes[1].kind \in {"face", "noface"}
           /\ FacesOf(SettingsCollection) = {}
           /\ HandlerCall(r, "none") /\ Finish(r))
          => /\ response'.status = 200
             /\ response'.matches = {}
             /\ SettingsCollection \in DOMAIN collections'
             /\ collections'[SettingsCollection] = {}]_vars

\* C18: the search call of POST /recognition/detect is given the max_faces and
\* the threshold of the request when the request has one (0 included), and
\* the service default when it has none.
EffectiveSearchParameters ==
    [][\A r \in BagToSet(requests) :
          search_faces_call(r, "none") =>
              response'.search =
                  <<[MaxFaces |-> IF r.max_faces = Absent THEN rekognition_max_faces
                                  ELSE r.max_faces[1],
                     FaceMatchThreshold |->
                         IF r.threshold = Absent THEN rekognition_face_match_threshold
                         ELSE r.threshold[1]]>>]_vars

\* C19: POST /recognition/index on an image for which the backend indexes no
\* face (empty face records, or InvalidParameterException) gives 400 and adds
\* no face; a backend error gives 502; 201 is given only when a face of the
\* user was indexed.
NoFaceOnRegister ==
    [][\A r \in BagToSet(requests), fault \in {"none", "index", "invalid_parameter"} :
          (r.op = "index" /\ HandlerCall(r, fault) /\ Finish(r)) =>
              LET image == r.image_bytes[1]
                  backend_error == fault = "index" \/ Unreadable(image)
                  no_face == /\ ~backend_error
                             /\ fault = "invalid_parameter" \/ image.kind = "noface"
              IN  /\ no_face => /\ response'.status = 400
                                /\ FacesOf(SettingsCollection)' = FacesOf(SettingsCollection)
                  /\ backend_error => response'.status = 502
                  /\ response'.status = 201 =>
                        /\ ~no_face /\ ~backend_error
                        /\ \E f \in FacesOf(SettingsCollection)' :
                              f.external_id = r.user_id /\ f.image = image]_vars

\* C20: after DELETE /recognition/faces/me returns 200 for a user, the
\* collection holds no face of that user, and the faces of others are as
\* they were.
DeregisterRemovesAll ==
    [][\A r \in BagToSet(requests) :
          (/\ r.op = "delete" /\ HandlerCall(r, "none") /\ Finish(r)
           /\ response'.status = 200) =>
              /\ r.user_id \notin ExternalIds(SettingsCollection)'
              /\ \A f \in FacesOf(SettingsCollection) :
                     f.external_id # r.user_id => f \in FacesOf(SettingsCollection)']_vars

\* -------------------------------- properties: deregistration and the events
\* C21: after DELETE /recognition/faces/me returns 200 for a user, no
\* collection, the collections of the events included, holds a face of that
\* user.
DeregisterEverywhere ==
    [][\A r \in BagToSet(requests) :
          (/\ r.op = "delete" /\ HandlerCall(r, "none") /\ Finish(r)
           /\ response'.status = 200)
          => \A c \in DOMAIN collections' :
                 \A f \in collections'[c] : f.external_id # r.user_id]_vars

\* C22: GET /recognition/stats gives 404 exactly when the settings collection
\* does not exist, and 502 for another error of the describe call; a
\* POST /recognition/detect or /recognition/index that succeeds leaves the
\* collection in existence, it stays in existence, and the stats then are 200
\* with the id of the collection and the number of faces it holds.
CollectionStats ==
    [][/\ (response'.op = "stats" /\ get_collection_stats("none")) =>
             IF CollectionExists(SettingsCollection)
             THEN /\ response'.status = 200
                  /\ response'.stats =
                        <<[collection_id |-> SettingsCollection,
                           face_count |-> Cardinality(FacesOf(SettingsCollection))]>>
             ELSE response'.status = 404 /\ response'.stats = <<>>
       /\ (response'.op = "stats" /\ get_collection_stats("describe")) =>
             response'.status = 502
       /\ (response'.op \in {"detect", "index"} /\ response'.status \in {200, 201}) =>
             CollectionExists(SettingsCollection)'
       /\ CollectionExists(SettingsCollection) => CollectionExists(SettingsCollection)'
      ]_vars

\* The stats of a collection that a registration created and put one face in.
CollectionStatsWitness ==
    /\ response.op = "stats" /\ response.status = 200
    /\ response.stats = <<[collection_id |-> SettingsCollection, face_count |-> 1]>>

\* A step of the recognition core: the event indexer, or a request to the
\* recognition API or a call of one of its handlers, with any input and any
\* outcome of the call.
CoreStep ==
    \/ \E i \in Invocations : _run(i)
    \/ \E frame \in Frames, e \in Events, choice \in SearchChoices :
          detect_faces_in_frame(frame, e, choice[1], choice[2])
    \/ \E u \in Users, image \in Frames : index_user_face(u, image)
    \/ \E u \in Users : delete_my_faces(u)
    \/ \E r \in BagToSet(requests), fault \in Faults : HandlerCall(r, fault)
    \/ \E image \in Frames, fault \in {"none", "detect"} : detect_faces_only(image, fault)
    \/ \E fault \in {"none", "describe"} : get_collection_stats(fault)

\* C23: no step of the recognition core (the event indexer, identify-frame,
\* register-face, deregister-faces, detect-only, collection-stats) writes a
\* consent row, a membership or a photo_path.
CoreReadsOnly ==
    [][CoreStep => UNCHANGED <<consents, memberships, photo_path>>]_vars

\* A pass indexed user 2, who had granted the consents, and completed event 1;
\* a deregistration of user 2 then returned 200, and the consent row of user 2
\* still allows recognition.
CoreReadsOnlyWitness ==
    /\ JustEnded("a") /\ rc["a"].wrote[EndedEvent("a")] = COMPLETED
    /\ 2 \in ExternalIds(EventCollection(1))
    /\ response.op = "delete" /\ response.status = 200
    /\ consents[<<1, 2>>].allow_recognition
    /\ GetObject(PhotoPathOf(2)) = FaceOf(2)

\* C24: the collection ids of distinct events are distinct, and a step of the
\* event indexer on an event creates and changes no collection but the one of
\* that event.
CollectionScope ==
    /\ [](\A e1, e2 \in Events : EventCollection(e1) = EventCollection(e2) => e1 = e2)
    /\ [][\A i \in Invocations :
             (/\ rc'[i] # rc[i]
              /\ rc[i].pc \in {"in_progress", "ensure", "query", "profile", "index",
                               "completed", "failed"})
             => \A c \in DOMAIN collections \cup DOMAIN collections' :
                    c # EventCollection(CurrentEvent(i)) =>
                        /\ c \in DOMAIN collections /\ c \in DOMAIN collections'
                        /\ collections'[c] = collections[c]]_vars

\* One run went through events 1 and 2, each with user 1 alone in its consent
\* query: each of the two collections was created and holds one face, the one
\* that the attempt on its event stored.
CollectionScopeWitness ==
    /\ JustEnded("a") /\ rc["a"].k = 3
    /\ rc["a"].wrote[1] = COMPLETED /\ rc["a"].wrote[2] = COMPLETED
    /\ \A e \in {1, 2} :
          /\ CollectionExists(EventCollection(e))
          /\ Cardinality(FacesOf(EventCollection(e))) = 1
          /\ ExternalIds(EventCollection(e)) = {1}

\* The positions of an attempt after the write of in_progress: the calls that
\* work on the event.
Working == {"ensure", "query", "profile", "index", "completed"}

\* C25: an invocation is at the ensure_collection call, the consent query, a
\* profile read, an index call or the write of completed of an event only
\* after its own write of in_progress for that event returned; when that
\* write raises, the attempt makes none of these calls.
ClaimBeforeWork ==
    /\ [](\A i \in Invocations :
             rc[i].pc \in Working => rc[i].wrote[CurrentEvent(i)] = IN_PROGRESS)
    /\ [][\A i \in Invocations :
             (rc[i].pc = "in_progress" /\ rc'[i].pc \in Working) =>
                 /\ CurrentEvent(i)' = CurrentEvent(i)
                 /\ rc'[i].pc = "ensure"
                 /\ indexing_status'[CurrentEvent(i)] = IN_PROGRESS]_vars

\* The write of in_progress raised for event 1: the event is recorded failed
\* and the attempt did not create its collection.
ClaimBeforeWorkWitness ==
    /\ JustEnded("a") /\ EndedEvent("a") = 1
    /\ <<1, "in_progress">> \in rc["a"].raised_at
    /\ rc["a"].wrote[1] = FAILED
    /\ ~CollectionExists(EventCollection(1))

\* C26: the write of in_progress is no claim. Whatever status the event has
\* when an invocation writes it, in_progress written by an overlapping
\* invocation included, a write that returns leaves the event in_progress and
\* the invocation goes on to work on the event.
ClaimNotExclusive ==
    [][\A i \in Invocations :
          (/\ rc[i].pc = "in_progress" /\ rc'[i] # rc[i]
           /\ <<CurrentEvent(i), "in_progress">> \notin rc'[i].raised_at)
          => /\ rc'[i].pc = "ensure" /\ rc'[i].k = rc[i].k
             /\ indexing_status'[CurrentEvent(i)] = IN_PROGRESS]_vars

\* Two invocations selected event 1, both wrote in_progress, and both are at
\* the index call for the same user of the event.
ClaimNotExclusiveWitness ==
    /\ rc["a"].pc = "index" /\ rc["b"].pc = "index"
    /\ CurrentEvent("a") = 1 /\ CurrentEvent("b") = 1
    /\ CurrentUser("a") = CurrentUser("b")
    /\ rc["a"].wrote[1] = IN_PROGRESS /\ rc["b"].wrote[1] = IN_PROGRESS

\* C27: when the event indexer makes the index call for a user of an event,
\* the consent row of that user for the event does not have
\* allow_recognition = false.
IndexOnlyWhileAllowed ==
    [][\A i \in Invocations :
          (/\ rc[i].pc = "index" /\ rc'[i] # rc[i]
           /\ <<CurrentEvent(i), CurrentUser(i)>> \in DOMAIN consents)
          => consents[<<CurrentEvent(i), CurrentUser(i)>>].allow_recognition]_vars

\* C28: when an index call of a pass returns for a user, the collection of
\* the event holds a face whose external id is that user, so that a pass
\* writes completed only with a face for every user it made the call for.
IndexedMeansFace ==
    [][\A i \in Invocations :
          (/\ rc[i].pc = "index" /\ rc'[i] # rc[i]
           /\ rc'[i].pc # "failed")
          => CurrentUser(i) \in ExternalIds(EventCollection(CurrentEvent(i)))']_vars

\* C29: no step takes a face out of the collection of an event, the write of
\* failed included; and a face enters the collection of an event only by the
\* index call of a pass on that event, for a user of the list the consent
\* query of the pass returned, with that user as external id, from the photo
\* of that user's profile.
NoRollback ==
    [][\A e \in Events :
          LET before == FacesOf(EventCollection(e))
              after == FacesOf(EventCollection(e))'
          IN  \/ after = before
              \/ /\ before \subseteq after
                 /\ \A f \in after \ before :
                       \E i \in Invocations :
                           /\ rc[i].pc = "index" /\ rc'[i] # rc[i]
                           /\ CurrentEvent(i) = e
                           /\ CurrentUser(i) \in Range(rc[i].user_ids)
                           /\ f.external_id = CurrentUser(i)
                           /\ rc[i].photo_path \notin {None, ""}
                           /\ f.image = GetObject(rc[i].photo_path)]_vars

\* A pass on event 1 indexed user 1, the write of completed raised and the
\* event was written failed: the face of user 1 is in the collection.
NoRollbackWitness ==
    /\ JustEnded("a") /\ EndedEvent("a") = 1
    /\ rc["a"].wrote[1] = FAILED
    /\ <<1, "completed">> \in rc["a"].raised_at
    /\ rc["a"].user_ids = <<1>>
    /\ ExternalIds(EventCollection(1)) = {1}

\* C30: the create call of ensure_collection_exists that the backend answers
\* does not fail the request, whatever other handlers did since the describe
\* call of this one: the handler goes on to its next call.
ConcurrentEnsure ==
    [][\A r \in BagToSet(requests) :
          ensure_create(r, "none") => Continue(r, AfterEnsure(r))]_vars
====
